---- MODULE Spec2Model ----
(***************************************************************************)
(* Model of the TimeSeriesChart component of the groundwater dashboard     *)
(* (src/unnamed/part_002) together with the host inputs it reacts to.      *)
(*                                                                         *)
(* The component's React state (chartType, showTrendline, visibleSeries,   *)
(* isZoomed, chartInstance) and its props (series, loading, error,         *)
(* onRangeChange, defaultChartType) are the variables.  Every user         *)
(* operation is one action that contains the handler, the re-render and    *)
(* the effects the re-render schedules.  The drawn chart (the Chart.js     *)
(* object behind <Line>/<Bar>) is the variable chart; the zoom plugin's    *)
(* API is modelled by what the handlers call on it.                        *)
(***************************************************************************)
EXTENDS Integers, Sequences, FiniteSets, TLC

(***************************************************************************)
(* Numbers.  A JavaScript number is modelled as a normalised fraction      *)
(* num/den with den >= 0; den = 0 is a non-finite value (0/0 is NaN,       *)
(* 1/0 is Infinity, -1/0 is -Infinity).  Rounding of doubles is not        *)
(* modelled.                                                               *)
(***************************************************************************)
Abs(n) == IF n < 0 THEN -n ELSE n

Sign(n) == IF n < 0 THEN -1 ELSE IF n > 0 THEN 1 ELSE 0

RECURSIVE Gcd(_, _)
Gcd(a, b) == IF b = 0 THEN a ELSE Gcd(b, a % b)

Frac(n, d) ==
    IF d = 0 THEN [num |-> Sign(n), den |-> 0]
    ELSE LET g == Gcd(Abs(n), Abs(d))
         IN  [num |-> (Sign(d) * n) \div g, den |-> Abs(d) \div g]

Num(n) == [num |-> n, den |-> 1]

NaN == [num |-> 0, den |-> 0]

isFinite(v) == v.den # 0

\* a + b of doubles: NaN is absorbing, Infinity + -Infinity is NaN
NumAdd(a, b) ==
    IF a.den = 0 /\ b.den = 0
    THEN (IF a.num = b.num THEN a ELSE NaN)
    ELSE IF a.den = 0 THEN a
    ELSE IF b.den = 0 THEN b
    ELSE Frac(a.num * b.den + b.num * a.den, a.den * b.den)

\* a * b of doubles: 0 * Infinity is NaN
NumMul(a, b) ==
    IF a.den = 0 \/ b.den = 0
    THEN [num |-> Sign(a.num) * Sign(b.num), den |-> 0]
    ELSE Frac(a.num * b.num, a.den * b.den)

NumNeg(a) == [num |-> -a.num, den |-> a.den]

NumSub(a, b) == NumAdd(a, NumNeg(b))

\* a / b of doubles: x/0 is +-Infinity, 0/0 is NaN, x/Infinity is 0
NumDiv(a, b) ==
    IF a.den = 0 /\ b.den = 0 THEN NaN
    ELSE IF a.den = 0 THEN [num |-> a.num * (IF b.num < 0 THEN -1 ELSE 1), den |-> 0]
    ELSE IF b.den = 0 THEN (IF b.num = 0 THEN NaN ELSE Num(0))
    ELSE Frac(a.num * b.den * Sign(b.num), a.den * Abs(b.num))

(***************************************************************************)
(* Sequence helpers standing for Array.prototype.map/includes; filter is   *)
(* SelectSeq.                                                              *)
(***************************************************************************)
Range(s) == {s[i] : i \in 1..Len(s)}

includes(s, e) == \E i \in 1..Len(s) : s[i] = e

MapSeq(s, F(_)) == [i \in 1..Len(s) |-> F(s[i])]

(***************************************************************************)
(* DataPoint and DataSeries (the props' types).  An absent optional field  *)
(* is the string "none".                                                   *)
(***************************************************************************)
DataPoint(x, y) == [x |-> x, y |-> y]

DataSeries(id, label, data, hidden, type, yAxisID, color) ==
    [id |-> id, label |-> label, data |-> data, hidden |-> hidden,
     type |-> type, yAxisID |-> yAxisID, color |-> color]

P(x, y) == DataPoint(x, Num(y))

\* ids the host page uses, and one id that no supplied series ever has
SeriesIds == {"waterLevel", "rainfall", "temperature"}

UnknownId == "unknown"

DataRising == <<P(100, 1), P(200, 2), P(300, 3), P(400, 4)>>

DataFalling == <<P(200, 9), P(300, 5), P(400, 4)>>

DataTwo == <<P(100, 6), P(1000, 2)>>

DataOne == <<P(100, 7)>>

DataNaN == <<P(100, 1), DataPoint(200, NaN), P(300, 3)>>

WaterLevel(data) ==
    DataSeries("waterLevel", "Water Level", data, FALSE, "none", "none", "#1976d2")

Rainfall(data) ==
    DataSeries("rainfall", "Rainfall", data, FALSE, "bar", "y1", "#0288d1")

Temperature(data, hidden) ==
    DataSeries("temperature", "Temperature", data, hidden, "none", "none", "none")

SeriesNone == <<>>

SeriesThree ==
    <<WaterLevel(DataRising), Rainfall(DataFalling), Temperature(DataTwo, FALSE)>>

\* what the station page builds from one response, and from the next poll:
\* the same ids with other data
SeriesTwo == <<WaterLevel(DataRising), Rainfall(DataOne)>>

SeriesTwoFresh == <<WaterLevel(DataFalling), Rainfall(DataTwo)>>

SeriesHidden == <<WaterLevel(DataTwo), Temperature(DataOne, TRUE)>>

SeriesNoPoints == <<WaterLevel(<<>>), Rainfall(<<>>)>>

SeriesGap == <<WaterLevel(DataNaN)>>

SeriesInputs ==
    {SeriesNone, SeriesThree, SeriesTwo, SeriesTwoFresh, SeriesHidden, SeriesNoPoints,
     SeriesGap}

\* the ids of the supplied series
idsOf(s) == {s[i].id : i \in 1..Len(s)}

ChartTypes == {"line", "bar"}

(***************************************************************************)
(* Pure functions of the component.                                        *)
(***************************************************************************)
\* mutant: the effect forgets the hidden flag
effectVisibleSeriesAll(s, prev) ==
    IF Len(s) > 0 THEN MapSeq(s, LAMBDA e : e.id) ELSE prev

\* useEffect on [series]: series.filter(s => !s.hidden).map(s => s.id),
\* applied only when the list is non-empty
effectVisibleSeries(s, prev) ==
    IF Len(s) > 0
    THEN MapSeq(SelectSeq(s, LAMBDA e : ~e.hidden), LAMBDA e : e.id)
    ELSE prev

\* mutant: the updater never removes an id
toggleVisibleAppend(prev, seriesId) == Append(prev, seriesId)

\* the updater passed to setVisibleSeries by handleSeriesToggle
toggleVisible(prev, seriesId) ==
    IF includes(prev, seriesId)
    THEN SelectSeq(prev, LAMBDA id : id # seriesId)
    ELSE Append(prev, seriesId)

RECURSIVE SumTo(_, _, _)
\* reduce((a, b) => a + b, 0) over f[1..n]
SumTo(f, n, acc) == IF n = 0 THEN acc ELSE NumAdd(SumTo(f, n - 1, acc), f[n])

\* mutant: the regression runs over the x values instead of the indices
calculateTrendlineOverX(data) ==
    IF Len(data) < 2 THEN <<>>
    ELSE LET n      == Len(data)
             xv     == [i \in 1..n |-> Num(data[i].x)]
             yv     == [i \in 1..n |-> data[i].y]
             sumX   == SumTo(xv, n, Num(0))
             sumY   == SumTo(yv, n, Num(0))
             sumXY  == SumTo([i \in 1..n |-> NumMul(xv[i], yv[i])], n, Num(0))
             sumXX  == SumTo([i \in 1..n |-> NumMul(xv[i], xv[i])], n, Num(0))
             slope  == NumDiv(NumSub(NumMul(Num(n), sumXY), NumMul(sumX, sumY)),
                              NumSub(NumMul(Num(n), sumXX), NumMul(sumX, sumX)))
             icept  == NumDiv(NumSub(sumY, NumMul(slope, sumX)), Num(n))
         IN  [i \in 1..n |->
                DataPoint(data[i].x, NumAdd(NumMul(slope, Num(i - 1)), icept))]

calculateTrendline(data) ==
    IF Len(data) < 2 THEN <<>>
    ELSE LET n      == Len(data)
             xv     == [i \in 1..n |-> Num(i - 1)]
             yv     == [i \in 1..n |-> data[i].y]
             sumX   == SumTo(xv, n, Num(0))
             sumY   == SumTo(yv, n, Num(0))
             sumXY  == SumTo([i \in 1..n |-> NumMul(xv[i], yv[i])], n, Num(0))
             sumXX  == SumTo([i \in 1..n |-> NumMul(xv[i], xv[i])], n, Num(0))
             slope  == NumDiv(NumSub(NumMul(Num(n), sumXY), NumMul(sumX, sumY)),
                              NumSub(NumMul(Num(n), sumXX), NumMul(sumX, sumX)))
             icept  == NumDiv(NumSub(sumY, NumMul(slope, sumX)), Num(n))
         IN  [i \in 1..n |->
                DataPoint(data[i].x, NumAdd(NumMul(slope, Num(i - 1)), icept))]

\* theme.palette.primary.main / secondary.main
PrimaryMain == "#1976d2"

SecondaryMain == "#9c27b0"

primaryDataset(s, kind) ==
    [label           |-> s.label,
     data            |-> MapSeq(s.data, LAMBDA p : DataPoint(p.x, p.y)),
     borderColor     |-> IF s.color # "none" THEN s.color ELSE PrimaryMain,
     backgroundColor |-> (IF s.color # "none" THEN s.color ELSE PrimaryMain)
                            \o (IF s.type = "bar" THEN "CC" ELSE "33"),
     borderDash      |-> FALSE,
     pointRadius     |-> 3,
     fill            |-> FALSE,
     yAxisID         |-> IF s.yAxisID # "none" THEN s.yAxisID ELSE "y",
     type            |-> IF s.type # "none" THEN s.type ELSE kind]

\* mutant: the trend overlay is always put on the primary axis
trendDatasetOnY(s) ==
    [label           |-> s.label \o " (Trend)",
     data            |-> calculateTrendline(s.data),
     borderColor     |-> (IF s.color # "none" THEN s.color ELSE SecondaryMain) \o "99",
     backgroundColor |-> "transparent",
     borderDash      |-> TRUE,
     pointRadius     |-> 0,
     fill            |-> FALSE,
     yAxisID         |-> "y",
     type            |-> "line"]

trendDataset(s) ==
    [label           |-> s.label \o " (Trend)",
     data            |-> calculateTrendline(s.data),
     borderColor     |-> (IF s.color # "none" THEN s.color ELSE SecondaryMain) \o "99",
     backgroundColor |-> "transparent",
     borderDash      |-> TRUE,
     pointRadius     |-> 0,
     fill            |-> FALSE,
     yAxisID         |-> IF s.yAxisID # "none" THEN s.yAxisID ELSE "y",
     type            |-> "line"]

\* mutant: the trend overlays are built from the unfiltered series list
chartDataTrendAll(s, visible, trend, kind) ==
    MapSeq(SelectSeq(s, LAMBDA e : includes(visible, e.id)),
           LAMBDA e : primaryDataset(e, kind))
      \o (IF trend THEN MapSeq(s, LAMBDA e : trendDataset(e)) ELSE <<>>)

\* mutant: the datasets follow the order in which the ids were made visible
chartDataInToggleOrder(s, visible, trend, kind) ==
    LET byId(id) == CHOOSE e \in Range(s) : e.id = id
        shown == SelectSeq(visible, LAMBDA id : id \in {s[i].id : i \in 1..Len(s)})
    IN  MapSeq(shown, LAMBDA id : primaryDataset(byId(id), kind))
          \o (IF trend THEN MapSeq(shown, LAMBDA id : trendDataset(byId(id))) ELSE <<>>)

\* chartData.datasets: the RenderModel's dataset list
chartData(s, visible, trend, kind) ==
    LET shown == SelectSeq(s, LAMBDA e : includes(visible, e.id))
    IN  MapSeq(shown, LAMBDA e : primaryDataset(e, kind))
          \o (IF trend THEN MapSeq(shown, LAMBDA e : trendDataset(e)) ELSE <<>>)

\* mutant: the error return comes before the loading return
renderedViewErrorFirst(isLoading, hasError, s) ==
    IF hasError THEN "error"
    ELSE IF isLoading THEN "loading"
    ELSE IF Len(s) = 0 \/ \A i \in 1..Len(s) : Len(s[i].data) = 0 THEN "empty"
    ELSE "chart"

\* which of the four returns of the component is taken
renderedView(isLoading, hasError, s) ==
    IF isLoading THEN "loading"
    ELSE IF hasError THEN "error"
    ELSE IF Len(s) = 0 \/ \A i \in 1..Len(s) : Len(s[i].data) = 0 THEN "empty"
    ELSE "chart"

(***************************************************************************)
(* The drawn chart and the zoom plugin.  The X scale of a fresh chart      *)
(* shows the full extent; zoom(f) scales the visible range about its       *)
(* centre, pan(d) shifts it, resetZoom() restores the full extent.         *)
(***************************************************************************)
FullExtent == [min |-> 0, max |-> 2000]

NoChart == [mounted |-> FALSE, min |-> 0, max |-> 0]

FreshChart == [mounted |-> TRUE, min |-> FullExtent.min, max |-> FullExtent.max]

\* chartInstance.zoom(1.1) and chartInstance.zoom(0.9), in percent
ZoomInPct == 110

ZoomOutPct == 90

\* the plugin's zoom about the centre of the view: the range shrinks by
\* range * (f - 1), half of it taken from each end
pluginZoom(c, pct) ==
    LET d == ((c.max - c.min) * (pct - 100)) \div 200
    IN  [c EXCEPT !.min = c.min + d, !.max = c.max - d]

pluginPan(c, delta) == [c EXCEPT !.min = c.min + delta, !.max = c.max + delta]

pluginResetZoom(c) == [c EXCEPT !.min = FullExtent.min, !.max = FullExtent.max]

atFullExtent(c) == c.min = FullExtent.min /\ c.max = FullExtent.max

\* new Date(ms), and the null of a TimeRange
NewDate(ms) == [isNull |-> FALSE, time |-> ms]

NullDate == [isNull |-> TRUE, time |-> 0]

TimeRange(start, end) == [start |-> start, end |-> end]

\* mutant: start and end exchanged
scaleRangeSwapped(c) == TimeRange(NewDate(c.max), NewDate(c.min))

\* the argument onZoomComplete / onPanComplete pass to onRangeChange
scaleRange(c) == TimeRange(NewDate(c.min), NewDate(c.max))

\* mutant: the reset reports the full extent as dates
resetRangeDates == TimeRange(NewDate(FullExtent.min), NewDate(FullExtent.max))

\* the argument handleResetZoom passes to onRangeChange
resetRange == TimeRange(NullDate, NullDate)

\* calls of the optional onRangeChange prop
notify(hasCallback, ranges) == IF hasCallback THEN ranges ELSE <<>>

\* <Line>/<Bar> are rendered only by the chart view; another view, or the
\* other of the two components, unmounts the drawn chart and a new one is
\* created at full extent
commitChart(oldView, newView, oldKind, newKind, c) ==
    IF newView # "chart" THEN NoChart
    ELSE IF oldView # "chart" \/ oldKind # newKind THEN FreshChart
    ELSE c

\* onChartRef stores a chart that is mounted and ignores null, so the state
\* keeps the destroyed chart while none is drawn
commitInstance(newView, inst) ==
    IF newView = "chart" THEN "live"
    ELSE IF inst = "live" THEN "stale"
    ELSE inst

(***************************************************************************)
(* Thresholds, their annotations, and the scale configuration              *)
(* (chartOptions).                                                         *)
(***************************************************************************)
Threshold(value, label, color, yAxisID) ==
    [value |-> value, label |-> label, color |-> color, yAxisID |-> yAxisID]

\* the three thresholds the station page derives from the total depth
ChartThresholds ==
    <<Threshold(Num(25), "Critical", "#d32f2f", "none"),
      Threshold(Num(50), "Moderate", "#ed6c02", "none"),
      Threshold(Num(75), "Safe", "#2e7d32", "none")>>

\* a threshold for the rainfall axis
RainThresholds == <<Threshold(Num(8), "Heavy rain", "#0288d1", "y1")>>

ThresholdInputs == {<<>>, ChartThresholds, RainThresholds}

\* chartOptions.plugins.annotation.annotations
annotations(ths) ==
    [k \in 1..Len(ths) |->
        [type     |-> "line",
         yMin     |-> ths[k].value,
         yMax     |-> ths[k].value,
         content  |-> ths[k].label,
         yScaleID |-> IF ths[k].yAxisID # "none" THEN ths[k].yAxisID ELSE "y"]]

\* the ids of chartOptions.scales: x and y always, y1 with a secondary label
scales(secondaryLabel) ==
    {"x", "y"} \cup (IF secondaryLabel # "none" THEN {"y1"} ELSE {})

(***************************************************************************)
(* Export (handleExportPNG, handleExportCSV).  A string of digits is the   *)
(* sequence of its digits, so that strings compare as JavaScript compares  *)
(* them, by code unit; a cell is <<>> for the empty string and <<y>> for   *)
(* String(y).                                                              *)
(***************************************************************************)
\* series whose x values are small numbers, for the exported table
DataA == <<P(1, 5), P(2, 6)>>

DataB == <<P(2, 0), P(3, 8)>>

DataDigits == <<P(2, 1), P(10, 2)>>

SeriesAB == <<WaterLevel(DataA), Rainfall(DataB)>>

SeriesDigits == <<WaterLevel(DataDigits)>>

ExportInputs == {SeriesAB, SeriesDigits, SeriesTwo, SeriesHidden, SeriesNoPoints}

RECURSIVE Digits(_)
\* String(n) of a non-negative integer
Digits(n) == IF n < 10 THEN <<n>> ELSE Append(Digits(n \div 10), n % 10)

\* String(point.x) of a numeric x
xString(x) == Digits(x)

\* a < b as Array.prototype.sort() without a comparator orders strings
stringLess(a, b) ==
    \E k \in 1..Len(b) :
        /\ \A j \in 1..(k - 1) : j <= Len(a) /\ a[j] = b[j]
        /\ (k > Len(a) \/ a[k] < b[k])

RECURSIVE sortStrings(_)
\* Array.from(allXValues).sort()
sortStrings(S) ==
    IF S = {} THEN <<>>
    ELSE LET m == CHOOSE m \in S : \A o \in S \ {m} : stringLess(m, o)
         IN  <<m>> \o sortStrings(S \ {m})

\* the Set of the x strings of all points of the series in s
allXValues(s) ==
    UNION {{xString(s[i].data[j].x) : j \in 1..Len(s[i].data)} : i \in 1..Len(s)}

\* s.data.find(p => pointX === xValue): <<>> when undefined
findPoint(data, xValue) ==
    LET hits == SelectSeq(data, LAMBDA p : xString(p.x) = xValue)
    IN  IF hits = <<>> THEN <<>> ELSE <<hits[1]>>

\* mutant: a missing value is written as 0
csvCellZero(data, xValue) ==
    LET point == findPoint(data, xValue)
    IN  IF point # <<>> THEN <<point[1].y>> ELSE <<Num(0)>>

\* point ? String(point.y) : ''
csvCell(data, xValue) ==
    LET point == findPoint(data, xValue)
    IN  IF point # <<>> THEN <<point[1].y>> ELSE <<>>

\* the csv text: the header line and one line per sorted x string
csvOf(s) ==
    LET sortedXValues == sortStrings(allXValues(s))
    IN  [header |-> <<"Date">> \o [i \in 1..Len(s) |-> s[i].label],
         rows   |-> [k \in 1..Len(sortedXValues) |->
                       [x     |-> sortedXValues[k],
                        cells |-> [i \in 1..Len(s) |->
                                     csvCell(s[i].data, sortedXValues[k])]]]]

\* mutant: onExport is called before the download and again after it
exportEffectsTwice(kind, payload, hasCallback) ==
    LET call == IF hasCallback
                THEN <<[effect |-> "onExport", kind |-> kind, payload |-> payload]>>
                ELSE <<>>
    IN  call \o <<[effect |-> "download", kind |-> kind, payload |-> payload]>> \o call

\* link.click() downloads the payload, then the optional onExport is called
exportEffects(kind, payload, hasCallback) ==
    <<[effect |-> "download", kind |-> kind, payload |-> payload]>>
    \o (IF hasCallback
        THEN <<[effect |-> "onExport", kind |-> kind, payload |-> payload]>>
        ELSE <<>>)

(***************************************************************************)
(* Bounds of the model.                                                    *)
(***************************************************************************)
\* zoom and pan operations on one drawn chart between two resets or remounts
MaxViewOps == 1

\* distance of one pan gesture, in X units
PanStep == 100

\* points of a generated series
MaxPoints == 3

\* largest finite y of a generated point
MaxY == 2

(***************************************************************************)
(* Generated series for the RenderModel: every sequence of up to MaxPoints *)
(* points whose x values follow one of two grids and whose y values are    *)
(* small integers or NaN.                                                  *)
(***************************************************************************)
YValues == {Num(y) : y \in 0..MaxY} \cup {NaN}

\* x values equal to the index, and x values with growing gaps
XGrids == {[i \in 1..MaxPoints |-> i - 1], [i \in 1..MaxPoints |-> 10 * i * i]}

DataExample == <<P(0, 1), P(1, 2), P(2, 3), P(3, 4)>>

DataInputs ==
    {DataExample} \cup
    UNION {{[i \in 1..n |-> DataPoint(g[i], ys[i])] :
               g \in XGrids, ys \in [1..n -> YValues]} : n \in 0..MaxPoints}

\* one generated series, alone or next to a second series that has points
RenderInputs ==
    {<<WaterLevel(d)>> : d \in DataInputs}
    \cup {<<WaterLevel(d), Rainfall(DataFalling)>> :
             d \in {e \in DataInputs : Len(e) < 2}}

(***************************************************************************)
(* State.                                                                  *)
(***************************************************************************)
VARIABLES
    series,             \* prop: the series list
    loading,            \* prop
    error,              \* prop: TRUE when an error message is set
    hasOnRangeChange,   \* prop: whether onRangeChange is supplied
    hasOnExport,        \* prop: whether onExport is supplied
    secondaryYAxisLabel,\* prop: the label, "none" when not supplied
    thresholds,         \* prop: the threshold list
    defaultChartType,   \* prop
    chartType,          \* useState(defaultChartType)
    showTrendline,      \* useState(false)
    visibleSeries,      \* useState([]), set by the effect on [series]
    isZoomed,           \* useState(false)
    chartInstance,      \* useState(null): "null", "live" or "stale"
    chart,              \* the drawn Chart.js object
    viewOps,            \* zoom/pan operations on the drawn chart so far
    lastOp,             \* the operation that led to this state
    notified,           \* onRangeChange calls made by the last operation
    exported            \* downloads and onExport calls made by the last operation

props == <<series, loading, error, hasOnRangeChange, hasOnExport, secondaryYAxisLabel,
           thresholds, defaultChartType>>

displayState == <<visibleSeries, showTrendline, chartType, isZoomed>>

vars == <<series, loading, error, hasOnRangeChange, hasOnExport, secondaryYAxisLabel,
          thresholds, defaultChartType, chartType, showTrendline, visibleSeries, isZoomed, chartInstance, chart,
          viewOps, lastOp, notified, exported>>

\* the ApiClient singleton, localStorage and the requests it has made
VARIABLES
    storage,            \* localStorage: auth_token, refresh_token, user (0: absent)
    refreshPromise,     \* this.refreshPromise: "null", "pending" or "rejected"
    refreshInFlight,    \* /auth/refresh requests without a response yet
    tokenCounter,       \* the last token the server has issued
    requests,           \* the requests made through this.instance
    apiCalls,           \* calls the application has made so far
    apiEvent            \* what the last step of the client did

apiVars == <<storage, refreshPromise, refreshInFlight, tokenCounter, requests,
             apiCalls, apiEvent>>

\* the station page's time-series state
VARIABLES
    station,            \* useState(null): TRUE once station details are set
    stationLoading,     \* the page's `loading`, useState(true)
    stationError,       \* the page's `error` is set
    timeRange,          \* useState('1m')
    timeSeriesData,     \* useState([]): the response it holds, 0 for none
    timeSeriesLoading,  \* useState(true)
    fetches,            \* the calls of fetchTimeSeriesData so far
    cancelTokenSources  \* ApiClient.cancelTokenSources: key -> index in fetches

stationVars == <<station, stationLoading, stationError, timeRange,
                 timeSeriesData, timeSeriesLoading, fetches,
                 cancelTokenSources>>

\* localStorage without the three items
NoStorage == [auth_token |-> 0, refresh_token |-> 0, user |-> 0]

NoEvent ==
    [op |-> "none", retried |-> {}, token |-> 0, refreshFailed |-> FALSE,
     logoutCompleted |-> FALSE]

\* the ApiClient right after its construction, nobody logged in
ApiIdle ==
    /\ storage = NoStorage
    /\ refreshPromise = "null"
    /\ refreshInFlight = 0
    /\ tokenCounter = 0
    /\ requests = <<>>
    /\ apiCalls = 0
    /\ apiEvent = NoEvent

\* the time ranges of the station page's buttons that the model uses
TimeRanges == {"1w", "1m"}

\* the station page before its first time-series request
StationIdle ==
    /\ station = FALSE
    /\ stationLoading = TRUE
    /\ stationError = FALSE
    /\ timeRange = "1m"
    /\ timeSeriesData = 0
    /\ timeSeriesLoading = TRUE
    /\ fetches = <<>>
    /\ cancelTokenSources = [key \in TimeRanges |-> 0]

view == renderedView(loading, error, series)

\* the RenderModel's datasets in the current state
datasets == chartData(series, visibleSeries, showTrendline, chartType)

\* the calls an operation of the chart makes to the host and to the browser;
\* the chart uses neither the ApiClient nor the state of the station page
Effects(ranges, exports) ==
    /\ notified' = ranges
    /\ exported' = exports
    /\ UNCHANGED <<apiVars, stationVars>>

\* an operation that exports nothing
Emit(ranges) == Effects(ranges, <<>>)

\* mount: first render with visibleSeries = [], then the effect on [series]
Init ==
    /\ series \in SeriesInputs
    /\ loading \in BOOLEAN
    /\ error \in BOOLEAN
    /\ hasOnRangeChange \in BOOLEAN
    /\ hasOnExport = FALSE
    /\ secondaryYAxisLabel = "Rainfall"
    /\ thresholds = ChartThresholds
    /\ defaultChartType \in ChartTypes
    /\ chartType = defaultChartType
    /\ showTrendline = FALSE
    /\ visibleSeries = effectVisibleSeries(series, <<>>)
    /\ isZoomed = FALSE
    /\ chartInstance = commitInstance(view, "null")
    /\ chart = commitChart("none", view, chartType, chartType, NoChart)
    /\ viewOps = 0
    /\ lastOp = "mount"
    /\ notified = <<>>
    /\ exported = <<>>
    /\ ApiIdle
    /\ StationIdle

(***************************************************************************)
(* Host inputs.                                                            *)
(***************************************************************************)
\* a re-render of the host with new props; s is a new array even when its
\* content equals the old one, so the effect on [series] runs
HostRender(s, l, e, name) ==
    LET newView == renderedView(l, e, s)
    IN  /\ series' = s
        /\ loading' = l
        /\ error' = e
        /\ chart' = commitChart(view, newView, chartType, chartType, chart)
        /\ chartInstance' = commitInstance(newView, chartInstance)
        /\ viewOps' = IF chart'.mounted /\ chart.mounted THEN viewOps ELSE 0
        /\ lastOp' = name
        /\ Emit(<<>>)
        /\ UNCHANGED <<hasOnRangeChange, hasOnExport, secondaryYAxisLabel, thresholds,
                       defaultChartType, chartType, showTrendline, isZoomed>>

SeriesInput(s) ==
    /\ visibleSeries' = effectVisibleSeries(s, visibleSeries)
    /\ HostRender(s, loading, error, "seriesInput")

SetLoading(l) ==
    /\ l # loading
    /\ HostRender(series, l, error, "setLoading")
    /\ UNCHANGED visibleSeries

SetError(e) ==
    /\ e # error
    /\ HostRender(series, loading, e, "setError")
    /\ UNCHANGED visibleSeries

(***************************************************************************)
(* User operations; the controls exist only in the chart view.             *)
(***************************************************************************)
handleSeriesToggle(seriesId) ==
    /\ view = "chart"
    /\ visibleSeries' = toggleVisible(visibleSeries, seriesId)
    /\ lastOp' = "toggleSeries"
    /\ Emit(<<>>)
    /\ UNCHANGED <<props, chartType, showTrendline, isZoomed, chartInstance, chart,
                   viewOps>>

\* mutant: the handler switches the trendline on instead of flipping it
handleTrendlineToggleOn ==
    /\ view = "chart"
    /\ showTrendline' = TRUE
    /\ lastOp' = "toggleTrendline"
    /\ Emit(<<>>)
    /\ UNCHANGED <<props, chartType, visibleSeries, isZoomed, chartInstance, chart,
                   viewOps>>

handleTrendlineToggle ==
    /\ view = "chart"
    /\ showTrendline' = ~showTrendline
    /\ lastOp' = "toggleTrendline"
    /\ Emit(<<>>)
    /\ UNCHANGED <<props, chartType, visibleSeries, isZoomed, chartInstance, chart,
                   viewOps>>

handleChartTypeChange(type) ==
    /\ view = "chart"
    /\ chartType' = type
    /\ chart' = commitChart(view, view, chartType, type, chart)
    /\ chartInstance' = commitInstance(view, chartInstance)
    /\ viewOps' = IF type = chartType THEN viewOps ELSE 0
    /\ lastOp' = "setChartType"
    /\ Emit(<<>>)
    /\ UNCHANGED <<props, showTrendline, visibleSeries, isZoomed>>

\* handleZoomIn / handleZoomOut: chartInstance.zoom(f); setIsZoomed(true).
\* The handlers do not call onRangeChange themselves.  The plugin documents
\* onZoomComplete for its wheel, pinch and drag gestures; its zoom() API
\* runs onZoom.  Whether a given plugin build also runs onZoomComplete
\* after zoom() is left open: both outcomes are behaviours of the model.
handleZoom(pct, name) ==
    /\ view = "chart"
    /\ viewOps < MaxViewOps
    /\ chartInstance # "null"
    /\ chart' = pluginZoom(chart, pct)
    /\ isZoomed' = TRUE
    /\ \E completes \in BOOLEAN :
         Emit(IF completes THEN notify(hasOnRangeChange, <<scaleRange(chart')>>)
              ELSE <<>>)
    /\ viewOps' = viewOps + 1
    /\ lastOp' = name
    /\ UNCHANGED <<props, chartType, showTrendline, visibleSeries, chartInstance>>

handleZoomIn == handleZoom(ZoomInPct, "zoomIn")

handleZoomOut == handleZoom(ZoomOutPct, "zoomOut")

\* wheel or pinch on the canvas: the plugin zooms and runs onZoomComplete
onZoomComplete(pct) ==
    /\ view = "chart"
    /\ viewOps < MaxViewOps
    /\ chart' = pluginZoom(chart, pct)
    /\ isZoomed' = TRUE
    /\ Emit(notify(hasOnRangeChange, <<scaleRange(chart')>>))
    /\ viewOps' = viewOps + 1
    /\ lastOp' = "wheelZoom"
    /\ UNCHANGED <<props, chartType, showTrendline, visibleSeries, chartInstance>>

\* drag on the canvas: the plugin pans and runs onPanComplete at the end
onPanComplete(delta) ==
    /\ view = "chart"
    /\ viewOps < MaxViewOps
    /\ chart' = pluginPan(chart, delta)
    /\ isZoomed' = TRUE
    /\ Emit(notify(hasOnRangeChange, <<scaleRange(chart')>>))
    /\ viewOps' = viewOps + 1
    /\ lastOp' = "pan"
    /\ UNCHANGED <<props, chartType, showTrendline, visibleSeries, chartInstance>>

\* the Reset zoom button (disabled while !isZoomed) and its handler; the
\* plugin's resetZoom() may run onZoomComplete before the handler goes on
handleResetZoom ==
    /\ view = "chart"
    /\ isZoomed
    /\ chartInstance # "null"
    /\ chart' = pluginResetZoom(chart)
    /\ isZoomed' = FALSE
    /\ \E completes \in BOOLEAN :
         Emit(notify(hasOnRangeChange,
                     (IF completes THEN <<scaleRange(chart')>> ELSE <<>>)
                        \o <<resetRange>>))
    /\ viewOps' = 0
    /\ lastOp' = "resetZoom"
    /\ UNCHANGED <<props, chartType, showTrendline, visibleSeries, chartInstance>>

Next ==
    \/ \E s \in SeriesInputs : SeriesInput(s)
    \/ \E l \in BOOLEAN : SetLoading(l)
    \/ \E e \in BOOLEAN : SetError(e)
    \/ \E id \in idsOf(series) \cup {UnknownId} : handleSeriesToggle(id)
    \/ handleTrendlineToggle
    \/ \E type \in ChartTypes : handleChartTypeChange(type)
    \/ handleZoomIn
    \/ handleZoomOut
    \/ \E pct \in {ZoomInPct, ZoomOutPct} : onZoomComplete(pct)
    \/ \E delta \in {-PanStep, PanStep} : onPanComplete(delta)
    \/ handleResetZoom

Spec == Init /\ [][Next]_vars

(***************************************************************************)
(* Export.  The export buttons are rendered in the chart view (enableExport *)
(* defaults to true); the handlers change no state of the component.       *)
(***************************************************************************)
\* chartInstance.toBase64Image(): a data URL of what the canvas shows
toBase64Image(c, ds) == [min |-> c.min, max |-> c.max, datasets |-> ds]

handleExportPNG ==
    /\ view = "chart"
    /\ Effects(<<>>,
               IF chartInstance # "null"
               THEN exportEffects("png", toBase64Image(chart, datasets), hasOnExport)
               ELSE <<>>)
    /\ lastOp' = "exportPNG"
    /\ UNCHANGED <<props, displayState, chartInstance, chart, viewOps>>

handleExportCSV ==
    /\ view = "chart"
    /\ Effects(<<>>,
               IF series = <<>>
               THEN <<>>
               ELSE exportEffects("csv", csvOf(series), hasOnExport))
    /\ lastOp' = "exportCSV"
    /\ UNCHANGED <<props, displayState, chartInstance, chart, viewOps>>

\* mount of a chart that is not loading and has no error, with or without
\* the onExport prop
InitExport ==
    /\ series \in ExportInputs
    /\ loading = FALSE
    /\ error = FALSE
    /\ hasOnRangeChange = FALSE
    /\ hasOnExport \in BOOLEAN
    /\ secondaryYAxisLabel = "Rainfall"
    /\ thresholds = ChartThresholds
    /\ defaultChartType \in ChartTypes
    /\ chartType = defaultChartType
    /\ showTrendline = FALSE
    /\ visibleSeries = effectVisibleSeries(series, <<>>)
    /\ isZoomed = FALSE
    /\ chartInstance = commitInstance(view, "null")
    /\ chart = commitChart("none", view, chartType, chartType, NoChart)
    /\ viewOps = 0
    /\ lastOp = "mount"
    /\ notified = <<>>
    /\ exported = <<>>
    /\ ApiIdle
    /\ StationIdle

NextExport ==
    \/ \E id \in idsOf(series) : handleSeriesToggle(id)
    \/ handleTrendlineToggle
    \/ handleZoomIn
    \/ handleExportPNG
    \/ handleExportCSV

SpecExport == InitExport /\ [][NextExport]_vars

(***************************************************************************)
(* The RenderModel over generated series.                                  *)
(***************************************************************************)
InitRender ==
    /\ series \in RenderInputs
    /\ loading = FALSE
    /\ error = FALSE
    /\ hasOnRangeChange = FALSE
    /\ hasOnExport = FALSE
    /\ secondaryYAxisLabel = "Rainfall"
    /\ thresholds = ChartThresholds
    /\ defaultChartType = "line"
    /\ chartType = defaultChartType
    /\ showTrendline = FALSE
    /\ visibleSeries = effectVisibleSeries(series, <<>>)
    /\ isZoomed = FALSE
    /\ chartInstance = commitInstance(view, "null")
    /\ chart = commitChart("none", view, chartType, chartType, NoChart)
    /\ viewOps = 0
    /\ lastOp = "mount"
    /\ notified = <<>>
    /\ exported = <<>>
    /\ ApiIdle
    /\ StationIdle

NextRender ==
    \/ \E id \in idsOf(series) : handleSeriesToggle(id)
    \/ handleTrendlineToggle
    \/ \E type \in ChartTypes : handleChartTypeChange(type)

SpecRender == InitRender /\ [][NextRender]_vars

(***************************************************************************)
(* The RenderModel with and without a secondary axis and thresholds.       *)
(***************************************************************************)
\* chartData and chartOptions of the current render
renderModel ==
    [datasets    |-> datasets,
     scales      |-> scales(secondaryYAxisLabel),
     annotations |-> annotations(thresholds)]

InitAxes ==
    /\ series \in {SeriesThree, SeriesTwo, SeriesHidden, SeriesGap}
    /\ loading = FALSE
    /\ error = FALSE
    /\ hasOnRangeChange = FALSE
    /\ hasOnExport = FALSE
    /\ secondaryYAxisLabel \in {"none", "Rainfall"}
    /\ thresholds \in ThresholdInputs
    /\ defaultChartType \in ChartTypes
    /\ chartType = defaultChartType
    /\ showTrendline = FALSE
    /\ visibleSeries = effectVisibleSeries(series, <<>>)
    /\ isZoomed = FALSE
    /\ chartInstance = commitInstance(view, "null")
    /\ chart = commitChart("none", view, chartType, chartType, NoChart)
    /\ viewOps = 0
    /\ lastOp = "mount"
    /\ notified = <<>>
    /\ exported = <<>>
    /\ ApiIdle
    /\ StationIdle

NextAxes ==
    \/ \E id \in idsOf(series) : handleSeriesToggle(id)
    \/ handleTrendlineToggle
    \/ \E type \in ChartTypes : handleChartTypeChange(type)
    \/ handleZoomIn

SpecAxes == InitAxes /\ [][NextAxes]_vars

(***************************************************************************)
(* ApiClient (services/api.ts): the response interceptor, login, logout    *)
(* and refreshToken.  A step runs a handler from one await to the next;    *)
(* promise continuations that are already runnable run in the same step,   *)
(* since no response and no timer can come between them.                   *)
(***************************************************************************)
\* calls the application makes (requests, logins, logouts)
MaxCalls == 3

\* the retry limit of the network-error branch
MaxNetworkRetries == 3

\* the first backoff delay, in ms
BackoffBase == 1000

\* the chart's variables while only the ApiClient or the page is observed
ChartIdle ==
    /\ series = SeriesNone
    /\ loading = FALSE
    /\ error = FALSE
    /\ hasOnRangeChange = FALSE
    /\ hasOnExport = FALSE
    /\ secondaryYAxisLabel = "Rainfall"
    /\ thresholds = ChartThresholds
    /\ defaultChartType = "line"
    /\ chartType = defaultChartType
    /\ showTrendline = FALSE
    /\ visibleSeries = effectVisibleSeries(series, <<>>)
    /\ isZoomed = FALSE
    /\ chartInstance = commitInstance(view, "null")
    /\ chart = commitChart("none", view, chartType, chartType, NoChart)
    /\ viewOps = 0
    /\ lastOp = "mount"
    /\ notified = <<>>
    /\ exported = <<>>

\* a request config handed to this.instance; the request interceptor puts
\* the stored auth_token, if any, into its Authorization header
NewRequest(kind, store, depth) ==
    [kind |-> kind, pc |-> "inflight", auth |-> store.auth_token, xRetry |-> FALSE,
     netRetry |-> FALSE, netCount |-> 0, delay |-> 0, sends |-> 1,
     refreshRetries |-> 0, cause |-> "none", depth |-> depth]

\* the request interceptor on a re-sent config: the header is replaced only
\* if a token is stored
resend(r, store) ==
    [r EXCEPT !.pc = "inflight", !.sends = @ + 1,
              !.auth = IF store.auth_token # 0 THEN store.auth_token ELSE @]

\* mutant: a refresh already in progress is not joined
refreshTokenAlwaysNew(promise, store) ==
    IF store.refresh_token = 0 THEN "throw" ELSE "post"

\* what a call of refreshToken() does: return the stored promise, fail in
\* the executor before any await, or post /auth/refresh
refreshToken(promise, store) ==
    IF promise # "null" THEN "join"
    ELSE IF store.refresh_token = 0 THEN "throw"
    ELSE "post"

\* this.refreshPromise after the executor has thrown before its first
\* await: its finally sets null, then the assignment stores the promise
promiseAfterThrow == "rejected"

\* mutant: the X-Retry header is not set
markRetryNot(r) == r

\* originalRequest.headers['X-Retry'] = 'true'
markRetry(r) == [r EXCEPT !.xRetry = TRUE]

\* mutant: the storage is cleared only when no server call was made
clearedAfterLogoutKeep(store) == store

\* the finally of logout()
clearedAfterLogout(store) == NoStorage

\* logout() up to its first await: it posts /auth/logout when a refresh
\* token is stored, else it falls through to its finally
logout(store, reqs, depth) ==
    IF store.refresh_token # 0
    THEN [storage |-> store, requests |-> Append(reqs, NewRequest("logout", store, depth))]
    ELSE [storage |-> clearedAfterLogout(store), requests |-> reqs]

\* a settled /auth/logout request lets its logout() run the finally
settleStorage(r, store) == IF r.kind = "logout" THEN clearedAfterLogout(store) ELSE store

reject(r, cause) == [r EXCEPT !.pc = "rejected", !.cause = cause]

awaiting == {i \in 1..Len(requests) : requests[i].pc = "awaitRefresh"}

Event(op, retried, token, refreshFailed, logoutCompleted) ==
    [op |-> op, retried |-> retried, token |-> token, refreshFailed |-> refreshFailed,
     logoutCompleted |-> logoutCompleted]

\* the application calls a method that sends one request through instance
ApiSend ==
    /\ apiCalls < MaxCalls
    /\ apiCalls' = apiCalls + 1
    /\ requests' = Append(requests, NewRequest("data", storage, 0))
    /\ apiEvent' = Event("send", {}, 0, FALSE, FALSE)
    /\ UNCHANGED <<storage, refreshPromise, refreshInFlight, tokenCounter>>
    /\ UNCHANGED <<vars, stationVars>>

\* login() whose /auth/login request is answered with success
login ==
    /\ apiCalls < MaxCalls
    /\ apiCalls' = apiCalls + 1
    /\ tokenCounter' = tokenCounter + 1
    /\ storage' = [auth_token |-> tokenCounter', refresh_token |-> tokenCounter',
                   user |-> 1]
    /\ apiEvent' = Event("login", {}, tokenCounter', FALSE, FALSE)
    /\ UNCHANGED <<refreshPromise, refreshInFlight, requests>>
    /\ UNCHANGED <<vars, stationVars>>

\* the application calls logout()
ApiLogout ==
    /\ apiCalls < MaxCalls
    /\ apiCalls' = apiCalls + 1
    /\ LET out == logout(storage, requests, 0)
       IN  /\ storage' = out.storage
           /\ requests' = out.requests
           /\ apiEvent' = Event("logout", {}, 0, FALSE, storage.refresh_token = 0)
    /\ UNCHANGED <<refreshPromise, refreshInFlight, tokenCounter>>
    /\ UNCHANGED <<vars, stationVars>>

\* a 2xx response: (response) => response
Respond200(i) ==
    /\ requests[i].pc = "inflight"
    /\ requests' = [requests EXCEPT ![i].pc = "resolved"]
    /\ storage' = settleStorage(requests[i], storage)
    /\ apiEvent' = Event("200", {}, 0, FALSE, requests[i].kind = "logout")
    /\ UNCHANGED <<refreshPromise, refreshInFlight, tokenCounter, apiCalls>>
    /\ UNCHANGED <<vars, stationVars>>

\* a 401 response: the error handler of the response interceptor
Respond401(i) ==
    LET r      == requests[i]
        marked == markRetry(r)
        how    == refreshToken(refreshPromise, storage)
        done   == r.kind = "logout"
    IN  /\ r.pc = "inflight"
        /\ IF r.xRetry
           THEN \* neither branch applies: Promise.reject(error)
                /\ requests' = [requests EXCEPT ![i] = reject(r, "status401")]
                /\ storage' = settleStorage(r, storage)
                /\ apiEvent' = Event("401", {}, 0, FALSE, done)
                /\ UNCHANGED <<refreshPromise, refreshInFlight>>
           ELSE IF how = "post"
           THEN /\ requests' = [requests EXCEPT ![i] = [marked EXCEPT !.pc = "awaitRefresh"]]
                /\ refreshPromise' = "pending"
                /\ refreshInFlight' = refreshInFlight + 1
                /\ apiEvent' = Event("401", {}, 0, FALSE, FALSE)
                /\ UNCHANGED storage
           ELSE IF how = "join" /\ refreshPromise = "pending"
           THEN /\ requests' = [requests EXCEPT ![i] = [marked EXCEPT !.pc = "awaitRefresh"]]
                /\ apiEvent' = Event("401", {}, 0, FALSE, FALSE)
                /\ UNCHANGED <<storage, refreshPromise, refreshInFlight>>
           ELSE IF how = "join"
           THEN \* the stored promise is an old rejection: catch, logout()
                LET out == logout(storage,
                                  [requests EXCEPT ![i] = reject(marked, "refresh")],
                                  r.depth + 1)
                IN  /\ requests' = out.requests
                    /\ storage' = settleStorage(r, out.storage)
                    /\ apiEvent' = Event("401stale", {i}, 0, FALSE,
                                         done \/ storage.refresh_token = 0)
                    /\ UNCHANGED <<refreshPromise, refreshInFlight>>
           ELSE \* no refresh token: the executor throws before any await
                LET removed == [storage EXCEPT !.auth_token = 0, !.refresh_token = 0]
                    out == logout(removed,
                                  [requests EXCEPT ![i] = reject(marked, "refresh")],
                                  r.depth + 1)
                IN  /\ requests' = out.requests
                    /\ storage' = settleStorage(r, out.storage)
                    /\ refreshPromise' = promiseAfterThrow
                    /\ apiEvent' = Event("401throw", {i}, 0, TRUE, TRUE)
                    /\ UNCHANGED refreshInFlight
        /\ UNCHANGED <<tokenCounter, apiCalls>>
        /\ UNCHANGED <<vars, stationVars>>

\* /auth/refresh answers with success: the token is stored, the promise is
\* resolved and cleared, and every request that awaits it is re-sent
RefreshSucceeds ==
    /\ refreshInFlight > 0
    /\ refreshInFlight' = refreshInFlight - 1
    /\ tokenCounter' = tokenCounter + 1
    /\ storage' = [storage EXCEPT !.auth_token = tokenCounter']
    /\ refreshPromise' = "null"
    /\ requests' = [i \in 1..Len(requests) |->
                      IF i \in awaiting
                      THEN resend([requests[i] EXCEPT !.auth = tokenCounter',
                                                      !.refreshRetries = @ + 1],
                                  storage')
                      ELSE requests[i]]
    /\ apiEvent' = Event("refreshOk", awaiting, tokenCounter', FALSE, FALSE)
    /\ UNCHANGED apiCalls
    /\ UNCHANGED <<vars, stationVars>>

\* /auth/refresh fails (error status, network error or success: false):
\* the tokens are removed, the promise is rejected and cleared, and every
\* request that awaits it calls logout() and is rejected
RefreshFails ==
    /\ refreshInFlight > 0
    /\ refreshInFlight' = refreshInFlight - 1
    /\ refreshPromise' = "null"
    /\ LET removed  == [storage EXCEPT !.auth_token = 0, !.refresh_token = 0]
           rejected == [i \in 1..Len(requests) |->
                          IF i \in awaiting THEN reject(requests[i], "refresh")
                          ELSE requests[i]]
           out      == logout(removed, rejected, 1)
       IN  /\ requests' = out.requests
           /\ storage' = IF awaiting = {} THEN removed ELSE out.storage
    /\ apiEvent' = Event("refreshFailed", awaiting, 0, TRUE, awaiting # {})
    /\ UNCHANGED <<tokenCounter, apiCalls>>
    /\ UNCHANGED <<vars, stationVars>>

\* no response (error.message === 'Network Error')
NetworkError(i) ==
    LET r == requests[i]
    IN  /\ r.pc = "inflight"
        /\ IF ~r.netRetry /\ r.netCount < MaxNetworkRetries
           THEN /\ requests' = [requests EXCEPT ![i] =
                                   [r EXCEPT !.pc = "backoff",
                                             !.delay = BackoffBase * 2 ^ r.netCount]]
                /\ apiEvent' = Event("networkError", {}, 0, FALSE, FALSE)
                /\ UNCHANGED storage
           ELSE /\ requests' = [requests EXCEPT ![i] = reject(r, "network")]
                /\ storage' = settleStorage(r, storage)
                /\ apiEvent' = Event("networkError", {}, 0, FALSE, r.kind = "logout")
        /\ UNCHANGED <<refreshPromise, refreshInFlight, tokenCounter, apiCalls>>
        /\ UNCHANGED <<vars, stationVars>>

\* the backoff timer fires: the flags are set and the request is re-sent
BackoffFires(i) ==
    /\ requests[i].pc = "backoff"
    /\ requests' = [requests EXCEPT ![i] =
                       resend([requests[i] EXCEPT !.netRetry = TRUE,
                                                  !.netCount = @ + 1],
                              storage)]
    /\ apiEvent' = Event("backoff", {i}, 0, FALSE, FALSE)
    /\ UNCHANGED <<storage, refreshPromise, refreshInFlight, tokenCounter, apiCalls>>
    /\ UNCHANGED <<vars, stationVars>>

\* the client with a logged-in user, or with nobody logged in
InitApi ==
    /\ ChartIdle
    /\ StationIdle
    /\ tokenCounter \in {0, 1}
    /\ storage = [auth_token |-> tokenCounter, refresh_token |-> tokenCounter,
                  user |-> tokenCounter]
    /\ refreshPromise = "null"
    /\ refreshInFlight = 0
    /\ requests = <<>>
    /\ apiCalls = 0
    /\ apiEvent = NoEvent

NextApi ==
    \/ ApiSend
    \/ login
    \/ ApiLogout
    \/ \E i \in 1..Len(requests) : Respond200(i)
    \/ \E i \in 1..Len(requests) : Respond401(i)
    \/ RefreshSucceeds
    \/ RefreshFails

\* authentication: every request is answered, with 2xx or with 401
SpecApi == InitApi /\ [][NextApi]_apiVars

\* requests over a failing network; no login or logout by the application
NextNet ==
    \/ ApiSend
    \/ \E i \in 1..Len(requests) : Respond200(i)
    \/ \E i \in 1..Len(requests) : Respond401(i)
    \/ RefreshSucceeds
    \/ RefreshFails
    \/ \E i \in 1..Len(requests) : NetworkError(i)
    \/ \E i \in 1..Len(requests) : BackoffFires(i)

SpecNet == InitApi /\ [][NextNet]_apiVars

(***************************************************************************)
(* The station page: its time-series requests and their responses          *)
(***************************************************************************)

\* the calls of fetchTimeSeriesData that the model follows
MaxFetches == 4

\* a call of fetchStationTimeSeries with its request in flight
NewFetch(range) == [range |-> range, state |-> "pending"]

\* cancelRequest(key): the source stored under the key is cancelled, which
\* rejects its request when that request is still in flight
cancelRequest(key, fs, sources) ==
    LET k == sources[key]
    IN IF k # 0 /\ fs[k].state = "pending"
       THEN [fs EXCEPT ![k].state = "cancelled"]
       ELSE fs

\* getCancelToken(key): cancels the request of the same key and stores the
\* source of the new request, the next entry of fs, under the key
getCancelToken(key, fs, sources) ==
    [fetches |-> Append(cancelRequest(key, fs, sources), NewFetch(key)),
     sources |-> [sources EXCEPT ![key] = Len(fs) + 1]]

\* fetchTimeSeriesData of the render with the given range: loading is set,
\* the request goes out under the key of its range; the catch and finally of
\* a call whose request this one cancelled run right after it
fetchTimeSeriesData(range) ==
    LET out == getCancelToken(range, fetches, cancelTokenSources)
        cancelled == \E k \in 1..Len(fetches) :
                        out.fetches[k].state # fetches[k].state
    IN /\ fetches' = out.fetches
       /\ cancelTokenSources' = out.sources
       /\ timeSeriesLoading' = ~cancelled

\* the chart and the controls are on the page
stationShown == station /\ ~stationLoading /\ ~stationError

\* the calls of fetchTimeSeriesData still to come from requests in flight
owed == IF stationLoading THEN 1 ELSE 0

\* fetchStationData settles; setStation re-runs the effect that fetches the
\* time series
fetchStationDataSettles ==
    /\ stationLoading
    /\ \E ok \in BOOLEAN :
        IF ok
        THEN /\ station' = TRUE
             /\ stationLoading' = FALSE
             /\ fetchTimeSeriesData(timeRange)
             /\ UNCHANGED <<stationError, timeRange, timeSeriesData>>
        ELSE /\ stationError' = TRUE
             /\ stationLoading' = FALSE
             /\ UNCHANGED <<station, timeRange, timeSeriesData,
                            timeSeriesLoading, fetches, cancelTokenSources>>
    /\ UNCHANGED <<vars, apiVars>>

\* a time-range button: setTimeRange, and for a new range the effect runs
\* the new fetchTimeSeriesData
handleTimeRangeChange ==
    /\ stationShown
    /\ Len(fetches) < MaxFetches
    /\ \E range \in TimeRanges :
        /\ timeRange' = range
        /\ IF range # timeRange
           THEN fetchTimeSeriesData(range)
           ELSE UNCHANGED <<timeSeriesLoading, fetches, cancelTokenSources>>
    /\ UNCHANGED <<station, stationLoading, stationError, timeSeriesData>>
    /\ UNCHANGED <<vars, apiVars>>

\* the 60-second interval fires
poll ==
    /\ station
    /\ Len(fetches) + owed < MaxFetches
    /\ fetchTimeSeriesData(timeRange)
    /\ UNCHANGED <<station, stationLoading, stationError, timeRange,
                   timeSeriesData>>
    /\ UNCHANGED <<vars, apiVars>>

\* the refresh button: fetchStationData and fetchTimeSeriesData together
handleRefresh ==
    /\ stationShown
    /\ Len(fetches) + 2 <= MaxFetches
    /\ stationLoading' = TRUE
    /\ fetchTimeSeriesData(timeRange)
    /\ UNCHANGED <<station, stationError, timeRange, timeSeriesData>>
    /\ UNCHANGED <<vars, apiVars>>

\* the response to request i arrives: setTimeSeriesData, then the finally
timeSeriesResponds(i) ==
    /\ fetches[i].state = "pending"
    /\ fetches' = [fetches EXCEPT ![i].state = "answered"]
    /\ timeSeriesData' = i
    /\ timeSeriesLoading' = FALSE
    /\ UNCHANGED <<station, stationLoading, stationError, timeRange,
                   cancelTokenSources>>
    /\ UNCHANGED <<vars, apiVars>>

\* request i fails: the catch logs the error, then the finally
timeSeriesFails(i) ==
    /\ fetches[i].state = "pending"
    /\ fetches' = [fetches EXCEPT ![i].state = "failed"]
    /\ timeSeriesLoading' = FALSE
    /\ UNCHANGED <<station, stationLoading, stationError, timeRange,
                   timeSeriesData, cancelTokenSources>>
    /\ UNCHANGED <<vars, apiVars>>

\* the page right after mounting: fetchStationData is in flight
InitStation ==
    /\ ChartIdle
    /\ ApiIdle
    /\ StationIdle

NextStation ==
    \/ fetchStationDataSettles
    \/ handleTimeRangeChange
    \/ poll
    \/ handleRefresh
    \/ \E i \in 1..Len(fetches) : timeSeriesResponds(i)
    \/ \E i \in 1..Len(fetches) : timeSeriesFails(i)

SpecStation == InitStation /\ [][NextStation]_stationVars

(***************************************************************************)
(* Claims.                                                                 *)
(***************************************************************************)
\* indices of the supplied series whose id is in visibleSeries
shownIdx == {i \in 1..Len(series) : includes(visibleSeries, series[i].id)}

labelsOf(ds) == {ds[k].label : k \in 1..Len(ds)}

withLabel(ds, l) == {k \in 1..Len(ds) : ds[k].label = l}

TrendLabel(s) == s.label \o " (Trend)"

\* C1: Visibility invariant.  In every reachable state no dataset of the
\* RenderModel, primary or trend, belongs to a series whose id is not in
\* visibleSeries.
C1_VisibilityInvariant ==
    LET labels == labelsOf(datasets)
    IN  \A i \in 1..Len(series) :
            ~includes(visibleSeries, series[i].id) =>
                /\ series[i].label \notin labels
                /\ TrendLabel(series[i]) \notin labels

\* C1 witness: trend lines are on, the view has been zoomed, and a supplied
\* series that is not hidden by its own flag has been toggled off.
C1_Witness ==
    /\ view = "chart"
    /\ showTrendline
    /\ isZoomed
    /\ \E i \in 1..Len(series) :
         ~series[i].hidden /\ ~includes(visibleSeries, series[i].id)
    /\ shownIdx # {}

\* C2: Dataset composition.  The dataset list holds exactly one primary
\* dataset per visible series and, with the trendline on, exactly one trend
\* dataset "{label} (Trend)" per visible series on its parent's axis, and
\* nothing else; with waterLevel, rainfall, temperature supplied,
\* temperature toggled off and the trendline on, these are the 4 datasets
\* of waterLevel and rainfall.
C2_DatasetComposition ==
    LET ds == datasets
    IN  /\ Len(ds) = Cardinality(shownIdx) * (IF showTrendline THEN 2 ELSE 1)
        /\ \A i \in shownIdx :
             LET prim  == withLabel(ds, series[i].label)
                 trend == withLabel(ds, TrendLabel(series[i]))
             IN  /\ Cardinality(prim) = 1
                 /\ \A k \in prim : ~ds[k].borderDash
                 /\ Cardinality(trend) = (IF showTrendline THEN 1 ELSE 0)
                 /\ \A k \in trend :
                      /\ ds[k].borderDash
                      /\ \A j \in prim : ds[j].yAxisID = ds[k].yAxisID
        /\ ~showTrendline => \A k \in 1..Len(ds) : ~ds[k].borderDash
        /\ (/\ idsOf(series) = {"waterLevel", "rainfall", "temperature"}
            /\ Range(visibleSeries) \cap idsOf(series) = {"waterLevel", "rainfall"}
            /\ showTrendline)
             => /\ Len(ds) = 4
                /\ labelsOf(ds) = {"Water Level", "Water Level (Trend)",
                                   "Rainfall", "Rainfall (Trend)"}

\* C2 witness: three series with at least 2 points each, temperature
\* toggled off, then the trendline toggled on.
C2_Witness ==
    /\ series = SeriesThree
    /\ visibleSeries = <<"waterLevel", "rainfall">>
    /\ showTrendline
    /\ lastOp = "toggleTrendline"
    /\ Len(datasets) = 4

\* C3 (as claimed): a fresh series input with the same series ids leaves
\* visibleSeries, showTrendline, chartType and the zoom state unchanged.
C3_FreshInputKeepsDisplayState ==
    [][(lastOp' = "seriesInput" /\ idsOf(series') = idsOf(series))
         => /\ Range(visibleSeries') = Range(visibleSeries)
            /\ UNCHANGED <<showTrendline, chartType, isZoomed>>]_vars

\* C4: Toggle series(id) for the id of a supplied series flips exactly that
\* id's membership in visibleSeries, leaves every other id, showTrendline,
\* chartType and the zoom state alone, and a second toggle of the same id
\* gives back the original visible set.
C4_ToggleFlipsOneId ==
    [][\A id \in idsOf(series) :
         handleSeriesToggle(id) =>
            /\ includes(visibleSeries', id) <=> ~includes(visibleSeries, id)
            /\ \A other \in (SeriesIds \cup {UnknownId}) \ {id} :
                 includes(visibleSeries', other) <=> includes(visibleSeries, other)
            /\ UNCHANGED <<showTrendline, chartType, isZoomed, chart>>
            /\ Range(toggleVisible(visibleSeries', id)) = Range(visibleSeries)
            /\ Len(toggleVisible(visibleSeries', id)) = Len(visibleSeries)]_vars

\* C4 witness: a supplied series was toggled off and on again, so the
\* visible set is the initial one while the array order is not.
C4_Witness ==
    /\ lastOp = "toggleSeries"
    /\ Len(series) >= 2
    /\ Range(visibleSeries) = Range(effectVisibleSeries(series, <<>>))
    /\ visibleSeries # effectVisibleSeries(series, <<>>)

\* C5 (as claimed): Toggle series(id) with an id of no supplied series
\* leaves the whole DisplayState unchanged.
C5_UnknownToggleIsNoOp ==
    [][\A id \in (SeriesIds \cup {UnknownId}) \ idsOf(series) :
         handleSeriesToggle(id) => UNCHANGED displayState]_vars

\* C6: Initial state.  Right after mount visibleSeries is exactly the ids of
\* the supplied series that are not hidden, the view is unzoomed, the
\* trendline is off and chartType is the configured default.
C6_InitialState ==
    lastOp = "mount" =>
        /\ Range(visibleSeries) = {series[i].id : i \in {j \in 1..Len(series) : ~series[j].hidden}}
        /\ Len(visibleSeries) = Cardinality(Range(visibleSeries))
        /\ ~isZoomed
        /\ chart.mounted => (chart.min = FullExtent.min /\ chart.max = FullExtent.max)
        /\ ~showTrendline
        /\ chartType = defaultChartType

\* C6 witness: a chart mounted with a hidden series and the bar default.
C6_Witness ==
    /\ lastOp = "mount"
    /\ view = "chart"
    /\ \E i \in 1..Len(series) : series[i].hidden
    /\ defaultChartType = "bar"

\* C7 (as claimed): every Zoom in() and Zoom out() marks the view zoomed and
\* is followed by one range-change notification whose start and end are the
\* new X bounds as non-null dates, start not after end.
C7_ZoomNotifies ==
    [][(lastOp' \in {"zoomIn", "zoomOut"} /\ hasOnRangeChange) =>
         /\ isZoomed'
         /\ Len(notified') = 1
         /\ ~notified'[1].start.isNull /\ ~notified'[1].end.isNull
         /\ notified'[1].start.time = chart'.min
         /\ notified'[1].end.time = chart'.max
         /\ notified'[1].start.time <= notified'[1].end.time]_vars

\* C8: Reset zoom() in a zoomed state leaves the view unzoomed at full
\* extent, and the last notification the caller received from it is
\* {start: null, end: null}.
C8_ResetZoom ==
    lastOp = "resetZoom" =>
        /\ ~isZoomed
        /\ chart.min = FullExtent.min /\ chart.max = FullExtent.max
        /\ hasOnRangeChange =>
             /\ notified # <<>>
             /\ notified[Len(notified)].start.isNull
             /\ notified[Len(notified)].end.isNull
        /\ ~hasOnRangeChange => notified = <<>>

\* C8 witness: a reset has run on a chart whose caller listens.
C8_Witness ==
    /\ lastOp = "resetZoom"
    /\ hasOnRangeChange
    /\ notified # <<>>

\* C9 (as claimed): whenever the chart is at full extent, Reset zoom() is a
\* no-op: it emits no notification and leaves DisplayState unchanged.
C9_ResetAtFullExtentIsNoOp ==
    [][(chart.mounted /\ atFullExtent(chart) /\ lastOp' = "resetZoom") =>
         /\ notified' = <<>>
         /\ UNCHANGED displayState]_vars

\* C10: the completion of a pan gesture marks the view zoomed and, when
\* onRangeChange is supplied, calls it once with the X axis' min and max as
\* dates, the form a completed zoom gesture emits; without the callback the
\* state is updated and nothing is emitted.
C10_PanNotifies ==
    lastOp \in {"pan", "wheelZoom"} =>
        /\ isZoomed
        /\ hasOnRangeChange =>
             /\ Len(notified) = 1
             /\ ~notified[1].start.isNull /\ ~notified[1].end.isNull
             /\ notified[1].start.time = chart.min
             /\ notified[1].end.time = chart.max
        /\ ~hasOnRangeChange => notified = <<>>

\* C10 witness: a pan has completed away from the full extent with a
\* listening caller.
C10_Witness ==
    /\ lastOp = "pan"
    /\ hasOnRangeChange
    /\ ~atFullExtent(chart)
    /\ Len(notified) = 1

\* C11 (as claimed): Set chart kind(kind) replaces chartType and leaves
\* visibleSeries, showTrendline, the zoomed flag and the visible X range of
\* the drawn chart unchanged, and emits no range-change notification.
C11_SetChartKindKeepsZoom ==
    [][\A type \in ChartTypes :
         handleChartTypeChange(type) =>
            /\ chartType' = type
            /\ UNCHANGED <<visibleSeries, showTrendline, isZoomed>>
            /\ chart'.min = chart.min /\ chart'.max = chart.max
            /\ notified' = <<>>]_vars

\* C12: Toggle trendline() flips showTrendline and leaves visibleSeries,
\* chartType and the zoom state unchanged, so that two consecutive toggles
\* give back the original value.
C12_ToggleTrendlineFlips ==
    [][lastOp' = "toggleTrendline" =>
         /\ showTrendline' = ~showTrendline
         /\ UNCHANGED <<visibleSeries, chartType, isZoomed, chart>>]_vars

\* C12 witness: the trendline is off again after a toggle, in a zoomed
\* chart with a series toggled off; it starts off, so it was toggled twice.
C12_Witness ==
    /\ lastOp = "toggleTrendline"
    /\ ~showTrendline
    /\ isZoomed
    /\ ~atFullExtent(chart)
    /\ \E i \in 1..Len(series) : ~includes(visibleSeries, series[i].id)

\* the table a CSV export has downloaded in this state
csvDownloaded == exported[1].payload

hasCsv == lastOp = "exportCSV" /\ exported # <<>>

\* the supplied series whose id is in visibleSeries
shownSeries == SelectSeq(series, LAMBDA s : includes(visibleSeries, s.id))

\* C13 (as claimed): the CSV export works on the visible series only: the
\* header has the columns of the visible series and no other, and every row
\* is the x value of a point of a visible series.
C13_CsvExportsVisibleOnly ==
    hasCsv =>
        /\ csvDownloaded.header
             = <<"Date">> \o [i \in 1..Len(shownSeries) |-> shownSeries[i].label]
        /\ \A k \in 1..Len(csvDownloaded.rows) :
             \E i \in 1..Len(shownSeries) :
               \E j \in 1..Len(shownSeries[i].data) :
                 xString(shownSeries[i].data[j].x) = csvDownloaded.rows[k].x

\* C14: the exported table has exactly one row per distinct x value of any
\* exported series (the series that have a column); in a row the cell of a
\* series is its y value at that x if it has a point there and is empty,
\* not zero, otherwise.
C14_UnionRows ==
    hasCsv =>
        LET csv == csvDownloaded
            cols == Tail(csv.header)
            col(i) == CHOOSE s \in Range(series) : s.label = cols[i]
            xs == UNION {{xString(p.x) : p \in Range(col(i).data)} :
                           i \in 1..Len(cols)}
        IN  /\ {csv.rows[k].x : k \in 1..Len(csv.rows)} = xs
            /\ Len(csv.rows) = Cardinality(xs)
            /\ \A k \in 1..Len(csv.rows) :
                 /\ Len(csv.rows[k].cells) = Len(cols)
                 /\ \A i \in 1..Len(cols) :
                      LET here == {p \in Range(col(i).data) :
                                     xString(p.x) = csv.rows[k].x}
                      IN  IF here = {}
                          THEN csv.rows[k].cells[i] = <<>>
                          ELSE \E p \in here : csv.rows[k].cells[i] = <<p.y>>

\* C14 witness: A with x values {1,2} and B with {2,3} were exported: three
\* rows, A blank at x=3, B blank at x=1, and B's y of 0 at x=2 written as 0.
C14_Witness ==
    /\ hasCsv
    /\ series = SeriesAB
    /\ Len(csvDownloaded.rows) = 3
    /\ {csvDownloaded.rows[k].x : k \in 1..3} = {<<1>>, <<2>>, <<3>>}
    /\ \E k \in 1..3 : /\ csvDownloaded.rows[k].x = <<3>>
                       /\ csvDownloaded.rows[k].cells[1] = <<>>
    /\ \E k \in 1..3 : /\ csvDownloaded.rows[k].x = <<1>>
                       /\ csvDownloaded.rows[k].cells[2] = <<>>
    /\ \E k \in 1..3 : /\ csvDownloaded.rows[k].x = <<2>>
                       /\ csvDownloaded.rows[k].cells = <<<<Num(6)>>, <<Num(0)>>>>

RECURSIVE numberOf(_)
\* the number a string of digits denotes
numberOf(d) ==
    IF d = <<>> THEN 0 ELSE 10 * numberOf(SubSeq(d, 1, Len(d) - 1)) + d[Len(d)]

\* C15 (as claimed): the rows of the exported table are sorted ascending by
\* x, also for numeric x values with different digit counts (2 before 10).
C15_RowsAscendingByX ==
    hasCsv =>
        \A k, l \in 1..Len(csvDownloaded.rows) :
            k < l => numberOf(csvDownloaded.rows[k].x) < numberOf(csvDownloaded.rows[l].x)

\* C16 (as claimed): when no series is visible or no visible series has a
\* data point, a CSV or PNG export generates no file and does not call
\* onExport.
C16_ExportWithoutVisibleDataIsNoOp ==
    (/\ lastOp \in {"exportCSV", "exportPNG"}
     /\ \A i \in shownIdx : series[i].data = <<>>)
        => exported = <<>>

\* C17: an export that produces a file calls the supplied onExport exactly
\* once, after the download, with the kind of the export and the payload
\* that was downloaded; without a file, without the callback or without an
\* export there is no call.
C17_OnExportOncePerResult ==
    LET downloads == SelectSeq(exported, LAMBDA ev : ev.effect = "download")
        calls == SelectSeq(exported, LAMBDA ev : ev.effect = "onExport")
        kind == IF lastOp = "exportPNG" THEN "png" ELSE "csv"
    IN  /\ lastOp \notin {"exportCSV", "exportPNG"} => exported = <<>>
        /\ Len(downloads) <= 1
        /\ (downloads # <<>> /\ hasOnExport) =>
              /\ exported = <<downloads[1], calls[1]>>
              /\ calls[1].kind = kind
              /\ downloads[1].kind = kind
              /\ calls[1].payload = downloads[1].payload
        /\ (downloads = <<>> \/ ~hasOnExport) => calls = <<>>

\* C17 witness: a PNG of a zoomed chart with a series toggled off was
\* downloaded and then reported to onExport.
C17_Witness ==
    /\ lastOp = "exportPNG"
    /\ hasOnExport
    /\ Len(exported) = 2
    /\ exported[2].effect = "onExport"
    /\ isZoomed
    /\ shownIdx # 1..Len(series)

\* C18 (as claimed): with the trendline enabled, a visible series with fewer
\* than 2 points has its primary dataset in the RenderModel and no
\* "{label} (Trend)" dataset.
C18_NoTrendDatasetBelowTwoPoints ==
    LET ds == datasets
    IN  showTrendline =>
          \A i \in shownIdx :
             Len(series[i].data) < 2 =>
                /\ series[i].label \in labelsOf(ds)
                /\ TrendLabel(series[i]) \notin labelsOf(ds)

\* the trend datasets of the visible series that have n >= 2 points, all
\* with finite y, paired with the series' data
fittedTrends ==
    LET ds == datasets
        fitted == {i \in shownIdx :
                     /\ Len(series[i].data) >= 2
                     /\ \A m \in 1..Len(series[i].data) : isFinite(series[i].data[m].y)}
    IN  IF showTrendline
        THEN UNION {{<<series[i].data, ds[k].data>> :
                       k \in {m \in 1..Len(ds) : ds[m].label = TrendLabel(series[i])}} :
                    i \in fitted}
        ELSE {}

C20_NonFinitePointsOmitted ==
    LET ds == datasets
    IN  \A i \in shownIdx :
           \A k \in 1..Len(ds) :
              ds[k].label = series[i].label =>
                 ds[k].data = SelectSeq(series[i].data, LAMBDA p : isFinite(p.y))

\* the k-th of the supplied series, in their own order, whose id is visible
shownAt(k) ==
    CHOOSE i \in shownIdx : Cardinality({j \in shownIdx : j <= i}) = k

\* C21: the RenderModel is determined by the series, the thresholds, the
\* display options and the DisplayState alone (the set of visible ids, the
\* trendline flag, the chart kind): its datasets are the visible series in
\* the order of the series list, whatever the order in which they were
\* toggled, with one annotation per threshold.
C21_RenderModelDeterminedByInputs ==
    LET rm == renderModel
        n  == Cardinality(shownIdx)
    IN  /\ Len(rm.datasets) = IF showTrendline THEN 2 * n ELSE n
        /\ \A k \in 1..n :
             /\ rm.datasets[k] = primaryDataset(series[shownAt(k)], chartType)
             /\ showTrendline => rm.datasets[n + k] = trendDataset(series[shownAt(k)])
        /\ Len(rm.annotations) = Len(thresholds)

\* C21 witness: a zoomed chart in which all series are visible again after
\* toggles that left visibleSeries in another order than the series list.
C21_Witness ==
    /\ Len(series) >= 2
    /\ Range(visibleSeries) = idsOf(series)
    /\ visibleSeries # [i \in 1..Len(series) |-> series[i].id]
    /\ showTrendline
    /\ isZoomed
    /\ thresholds # <<>>

\* the operations of the chart's controls
ControlOps ==
    {"toggleSeries", "toggleTrendline", "setChartType", "zoomIn", "zoomOut",
     "wheelZoom", "pan", "resetZoom"}

\* C22: exactly one view is rendered, by precedence loading > error > empty
\* > chart; a chart is drawn, and a control was last used, only while the
\* component is not loading, has no error and some series has a point.
C22_ViewPrecedence ==
    LET noData == series = <<>> \/ \A i \in 1..Len(series) : series[i].data = <<>>
    IN  /\ loading => view = "loading"
        /\ (~loading /\ error) => view = "error"
        /\ (~loading /\ ~error /\ noData) => view = "empty"
        /\ (~loading /\ ~error /\ ~noData) => view = "chart"
        /\ chart.mounted <=> view = "chart"
        /\ (chart.mounted \/ lastOp \in ControlOps) =>
              /\ ~loading
              /\ ~error
              /\ \E i \in 1..Len(series) : series[i].data # <<>>

\* C22 witness: the loading placeholder is shown although an error is set
\* and the series have points; the chart drawn before is gone.
C22_Witness ==
    /\ loading
    /\ error
    /\ view = "loading"
    /\ ~chart.mounted
    /\ chartInstance = "stale"
    /\ \E i \in 1..Len(series) : series[i].data # <<>>

\* C23 (as claimed): a primary dataset drawn as a bar, by the series' own
\* type or by the chart kind, has the fill suffix 'CC', and one drawn as a
\* line has '33'.
C23_FillOpacityByDrawType ==
    LET ds == datasets
    IN  \A k \in 1..Cardinality(shownIdx) :
           ds[k].backgroundColor
              = ds[k].borderColor \o (IF ds[k].type = "bar" THEN "CC" ELSE "33")

\* C24 (as claimed): the axis 'y' is configured, 'y1' is configured exactly
\* when a secondary-axis label is, and every dataset and every threshold
\* annotation refers to a configured axis.
C24_AxisConsistency ==
    LET rm == renderModel
    IN  /\ "y" \in rm.scales
        /\ "y1" \in rm.scales <=> secondaryYAxisLabel # "none"
        /\ \A k \in 1..Len(rm.datasets) : rm.datasets[k].yAxisID \in rm.scales
        /\ \A k \in 1..Len(rm.annotations) : rm.annotations[k].yScaleID \in rm.scales

\* C25: at most one /auth/refresh request is in flight, and it is the one
\* refreshPromise stands for; a request whose 401 was handled meanwhile
\* awaits that refresh; when the refresh succeeds, every awaiting request is
\* re-sent, all with the token that refresh has stored.
C25_SingleFlightRefresh ==
    /\ refreshInFlight <= 1
    /\ refreshInFlight = 1 <=> refreshPromise = "pending"
    /\ awaiting # {} => refreshPromise = "pending"
    /\ apiEvent.op = "refreshOk" =>
          /\ awaiting = {}
          /\ storage.auth_token = apiEvent.token
          /\ \A i \in apiEvent.retried :
                /\ requests[i].pc = "inflight"
                /\ requests[i].auth = apiEvent.token

\* C25 witness: two requests awaited one refresh and were re-sent with its
\* token.
C25_Witness ==
    /\ apiEvent.op = "refreshOk"
    /\ Cardinality(apiEvent.retried) >= 2
    /\ \A i \in apiEvent.retried : requests[i].auth = tokenCounter /\ requests[i].sends = 2

\* C26 (as claimed): whenever no refresh is in progress, refreshPromise is
\* null, so that the next refreshToken() starts a new attempt.
C26_RefreshPromiseClearedAfterSettle ==
    refreshInFlight = 0 => refreshPromise = "null"

\* C27: a request is re-sent after a token refresh at most once and only
\* with X-Retry set; a request that is not settled is in flight or awaits a
\* refresh that is in flight; the /auth/logout requests that failed
\* refreshes start are bounded by the calls the application has made.
C27_UnauthorizedHandlingTerminates ==
    /\ \A i \in 1..Len(requests) :
          /\ requests[i].refreshRetries <= 1
          /\ requests[i].refreshRetries = 1 => requests[i].xRetry
          /\ requests[i].pc = "awaitRefresh" =>
                requests[i].refreshRetries = 0 /\ refreshInFlight >= 1
          /\ requests[i].pc \in {"inflight", "awaitRefresh", "resolved", "rejected"}
          /\ requests[i].sends <= 2
          /\ requests[i].depth <= apiCalls
    /\ Len(requests) <= 2 * apiCalls

\* C27 witness: a request was re-sent after a refresh, got 401 again and was
\* rejected; an /auth/logout request got 401, its refresh failed, and it was
\* rejected too.
C27_Witness ==
    /\ \E i \in 1..Len(requests) :
          /\ requests[i].kind = "data"
          /\ requests[i].refreshRetries = 1
          /\ requests[i].pc = "rejected"
          /\ requests[i].cause = "status401"
    /\ \E j \in 1..Len(requests) :
          /\ requests[j].kind = "logout"
          /\ requests[j].pc = "rejected"
          /\ requests[j].cause = "refresh"

\* C28 (as claimed): a request that keeps failing with 'Network Error' is
\* rejected only after its third retry has failed, and is never re-sent
\* more than 3 times.
C28_NetworkRetryThreeTimes ==
    \A i \in 1..Len(requests) :
        /\ requests[i].netCount <= MaxNetworkRetries
        /\ (requests[i].pc = "rejected" /\ requests[i].cause = "network")
              => requests[i].netCount = MaxNetworkRetries

\* C29: when a refresh attempt fails, the requests that awaited it are
\* rejected, auth_token and refresh_token are absent and logout has run;
\* whenever a logout() has completed, with its server call answered,
\* failed or skipped, auth_token, refresh_token and user are all absent.
C29_RefreshFailureLogsOut ==
    /\ apiEvent.refreshFailed =>
          /\ storage.auth_token = 0 /\ storage.refresh_token = 0
          /\ apiEvent.retried # {}
          /\ \A i \in apiEvent.retried :
                requests[i].pc = "rejected" /\ requests[i].cause = "refresh"
          /\ apiEvent.logoutCompleted
    /\ apiEvent.logoutCompleted => storage = NoStorage

\* C29 witness: a refresh posted for a logged-in user failed while two
\* requests awaited it.
C29_Witness ==
    /\ apiEvent.op = "refreshFailed"
    /\ Cardinality(apiEvent.retried) >= 2
    /\ storage = NoStorage
    /\ \E i \in 1..Len(requests) : requests[i].auth # 0

\* C30: once every time-series request has settled and the chart is on the
\* page, the data handed to the chart is the response to the most recent
\* request for the selected time range (when that request was answered); a
\* late response for a previously selected range does not overwrite it.
latestFor(range) ==
    CHOOSE i \in 0..Len(fetches) :
        /\ i # 0 => fetches[i].range = range
        /\ \A k \in 1..Len(fetches) : fetches[k].range = range => k <= i

C30_NoStaleTimeSeries ==
    ( /\ stationShown
      /\ \A k \in 1..Len(fetches) : fetches[k].state # "pending"
      /\ latestFor(timeRange) # 0
      /\ fetches[latestFor(timeRange)].state = "answered" )
    => timeSeriesData = latestFor(timeRange)

====
